---- MODULE Spec2Model ----
(***************************************************************************)
(* Model of tools/generate_pdfs.py: the field formatters (format_time,     *)
(* format_ingredient, format_substitution), the document renderer          *)
(* (RecipePDF.render_recipe, render_optional_section, render_component,    *)
(* _section_header and the cursor of the page object) and the batch driver *)
(* main().                                                                 *)
(*                                                                         *)
(* Python values are records [t, s, b]: t is the type tag, s the text of a *)
(* str (a sequence of one-character strings), b the value of a bool.       *)
(* A dict is a function whose DOMAIN is its key set.  A call that can      *)
(* raise returns [exc, val]: exc is "none" or the exception's class.       *)
(***************************************************************************)
EXTENDS Integers, Sequences, FiniteSets, TLC

VARIABLES
    fpc, farg, fres,                      \* formatter harness: call, argument, result
    rpc, data, out, rexc,                 \* render_recipe: position, record, emitted blocks, exception
    cpc, comp, cout,                      \* render_component: position, component, emitted blocks
    y, page, lpc, inComp, hdrPage, hdrBroke, hdrY, brokeFirst, \* layout cursor of the page object
    mpc, nfiles, idx, cur, success_count, error_count,
    outcome, loaded, rendered, written, ret       \* main(): loop position and counters

fmtVars    == <<fpc, farg, fres>>
renderVars == <<rpc, data, out, rexc>>
compVars   == <<cpc, comp, cout>>
layoutVars == <<y, page, lpc, inComp, hdrPage, hdrBroke, hdrY, brokeFirst>>
mainVars   == <<mpc, nfiles, idx, cur, success_count, error_count,
                outcome, loaded, rendered, written, ret>>
vars == <<fmtVars, renderVars, compVars, layoutVars, mainVars>>

----------------------------------------------------------------------------
(* Python values *)

NoneV    == [t |-> "none", s |-> <<>>, b |-> FALSE]
Absent   == [t |-> "absent", s |-> <<>>, b |-> FALSE]
StrV(x)  == [t |-> "str", s |-> x, b |-> FALSE]
BoolV(x) == [t |-> "bool", s |-> <<>>, b |-> x]

\* bool(v): the truth value Python gives v in `if v` / `a or b`
Truthy(v) ==
    CASE v.t = "str"  -> v.s # <<>>
      [] v.t = "bool" -> v.b
      [] OTHER        -> FALSE

\* str(v), also what an f-string field {v} produces
PyStr(v) ==
    CASE v.t = "str"  -> v.s
      [] v.t = "bool" -> IF v.b THEN <<"T","r","u","e">> ELSE <<"F","a","l","s","e">>
      [] OTHER        -> <<"N","o","n","e">>

\* d.get(k, default)
DictGet(d, k, default) == IF k \in DOMAIN d THEN d[k] ELSE default

\* the dict holding exactly the keys of f that are not Absent
MkDict(f) == [k \in {k \in DOMAIN f : f[k].t # "absent"} |-> f[k]]

Ok(v)     == [exc |-> "none", val |-> v]
Raise(e)  == [exc |-> e, val |-> <<>>]

----------------------------------------------------------------------------
(* str methods *)

IsSpace(c) == c = " "

RECURSIVE LStrip(_)
LStrip(s) == IF s # <<>> /\ IsSpace(Head(s)) THEN LStrip(Tail(s)) ELSE s

RECURSIVE RStrip(_)
RStrip(s) ==
    IF s # <<>> /\ IsSpace(s[Len(s)]) THEN RStrip(SubSeq(s, 1, Len(s) - 1)) ELSE s

\* s.strip()
Strip(s) == RStrip(LStrip(s))

\* sep.join(parts)
RECURSIVE Join(_, _)
Join(sep, parts) ==
    IF parts = <<>> THEN <<>>
    ELSE IF Len(parts) = 1 THEN parts[1]
    ELSE parts[1] \o sep \o Join(sep, Tail(parts))

\* s.split(c): always at least one segment
RECURSIVE Split(_, _)
Split(s, c) ==
    IF \A i \in 1..Len(s) : s[i] # c THEN <<s>>
    ELSE LET i == CHOOSE i \in 1..Len(s) : s[i] = c /\ \A j \in 1..(i-1) : s[j] # c
         IN  <<SubSeq(s, 1, i - 1)>> \o Split(SubSeq(s, i + 1, Len(s)), c)

Digits == <<"0","1","2","3","4","5","6","7","8","9">>
IsDigit(c) == \E i \in 1..10 : Digits[i] = c
DigitVal(c) == (CHOOSE i \in 1..10 : Digits[i] = c) - 1

RECURSIVE DecVal(_)
DecVal(s) == IF s = <<>> THEN 0 ELSE 10 * DecVal(SubSeq(s, 1, Len(s) - 1)) + DigitVal(s[Len(s)])

\* int(s) of a str: surrounding whitespace is dropped, one sign is allowed,
\* then at least one digit; anything else raises ValueError
IntParse(s) ==
    LET t    == Strip(s)
        sgn  == t # <<>> /\ Head(t) \in {"-", "+"}
        body == IF sgn THEN Tail(t) ELSE t
    IN  IF body # <<>> /\ \A i \in 1..Len(body) : IsDigit(body[i])
        THEN Ok(IF sgn /\ Head(t) = "-" THEN 0 - DecVal(body) ELSE DecVal(body))
        ELSE Raise("ValueError")

RECURSIVE NatStr(_)
NatStr(n) == IF n < 10 THEN <<Digits[n + 1]>> ELSE NatStr(n \div 10) \o <<Digits[(n % 10) + 1]>>

\* the f-string field {n} of an int
IntStr(n) == IF n < 0 THEN <<"-">> \o NatStr(0 - n) ELSE NatStr(n)

----------------------------------------------------------------------------
(* pathlib.Path(p).stem and str.title(), used for the "(see: ...)" clause *)

RECURSIVE DropEmpty(_)
DropEmpty(parts) ==
    IF parts = <<>> THEN <<>>
    ELSE IF Head(parts) \in {<<>>, <<".">>} THEN DropEmpty(Tail(parts))
    ELSE <<Head(parts)>> \o DropEmpty(Tail(parts))

\* Path(p).name: the last component, "" when there is none
PathName(p) ==
    LET cs == DropEmpty(Split(p, "/"))
    IN  IF cs = <<>> THEN <<>> ELSE cs[Len(cs)]

\* Path(p).stem: the name without its last suffix
PathStem(p) ==
    LET name == PathName(p)
        dots == {i \in 1..Len(name) : name[i] = "."}
    IN  IF dots = {} THEN name
        ELSE LET i == CHOOSE i \in dots : \A j \in dots : j <= i
             IN  IF 1 < i /\ i < Len(name) THEN SubSeq(name, 1, i - 1) ELSE name

\* s.replace(a, b) for one-character a and b
Replace(s, a, b) == [i \in 1..Len(s) |-> IF s[i] = a THEN b ELSE s[i]]

LowerAlpha == <<"a","b","c","d","e","f","g","h","i","j","k","l","m",
                "n","o","p","q","r","s","t","u","v","w","x","y","z">>
UpperAlpha == <<"A","B","C","D","E","F","G","H","I","J","K","L","M",
                "N","O","P","Q","R","S","T","U","V","W","X","Y","Z">>
IsLower(c)  == \E i \in 1..26 : LowerAlpha[i] = c
IsUpper(c)  == \E i \in 1..26 : UpperAlpha[i] = c
IsCased(c)  == IsLower(c) \/ IsUpper(c)
ToUpper(c)  == IF IsLower(c) THEN UpperAlpha[CHOOSE i \in 1..26 : LowerAlpha[i] = c] ELSE c
ToLower(c)  == IF IsUpper(c) THEN LowerAlpha[CHOOSE i \in 1..26 : UpperAlpha[i] = c] ELSE c

\* s.title(): a cased character is upper-cased after an uncased one (or at
\* the start) and lower-cased after a cased one
Title(s) ==
    [i \in 1..Len(s) |->
        IF i = 1 \/ ~IsCased(s[i - 1]) THEN ToUpper(s[i]) ELSE ToLower(s[i])]

----------------------------------------------------------------------------
(* format_time, lines 23-33 *)

\* the exception classes of the except clause, line 32
TimeCaught == {"ValueError", "IndexError"}

\* the try body, lines 26-31
FormatTimeBody(s) ==
    LET parts == Split(s, ":")
        hours == IntParse(parts[1])
    IN  IF hours.exc # "none" THEN Raise(hours.exc)
        ELSE IF Len(parts) < 2 THEN Raise("IndexError")
        ELSE LET mins == IntParse(parts[2])
             IN  IF mins.exc # "none" THEN Raise(mins.exc)
                 ELSE IF hours.val > 0
                      THEN Ok(IntStr(hours.val) \o <<"h", " ">> \o IntStr(mins.val)
                              \o <<"m","i","n">>)
                      ELSE Ok(IntStr(mins.val) \o <<" ","m","i","n">>)

\* a handler that names ValueError only lets the IndexError of a
\* one-segment input escape
format_time_OnlyValueError(time_str) ==
    LET s == PyStr(time_str)
        r == FormatTimeBody(s)
    IN  IF r.exc = "ValueError" THEN Ok(s) ELSE r

format_time(time_str) ==
    LET s == PyStr(time_str)
        r == FormatTimeBody(s)
    IN  IF r.exc \in TimeCaught THEN Ok(s) ELSE r

----------------------------------------------------------------------------
(* format_ingredient, lines 36-65 *)

LitOptional == <<" "," ","[","o","p","t","i","o","n","a","l","]">>
LitGarnish  == <<" "," ","[","g","a","r","n","i","s","h","]">>
LitBrand    == <<" "," ","[","B","r","a","n","d",":"," ">>
LitSee      == <<" "," ","(","s","e","e",":"," ">>
LitParen    == <<" "," ","(">>
\* "->" stands for the one character U+2192
LitReplaces == <<" "," ","->"," ","r","e","p","l","a","c","e","s"," ">>

\* lines 50-53
AltClause(ing) ==
    IF "amount_alt" \in DOMAIN ing /\ "unit_alt" \in DOMAIN ing
    THEN LitParen \o PyStr(ing["amount_alt"]) \o <<" ">> \o PyStr(ing["unit_alt"]) \o <<")">>
    ELSE IF "amount_alt" \in DOMAIN ing
    THEN LitParen \o PyStr(ing["amount_alt"]) \o <<")">>
    ELSE <<>>

\* [garnish] written before the brand and see clauses
format_ingredient_GarnishEarly(ing) ==
    LET amount_str == Strip(PyStr(DictGet(ing, "amount", StrV(<<>>))))
        unit_str   == Strip(PyStr(DictGet(ing, "unit", StrV(<<>>))))
        parts0     == IF amount_str # <<>> THEN <<amount_str>> ELSE <<>>
        parts1     == IF unit_str # <<>> THEN parts0 \o <<unit_str>> ELSE parts0
    IN  IF "item" \notin DOMAIN ing THEN Raise("KeyError")
        ELSE IF ing["item"].t # "str" THEN Raise("TypeError")
        ELSE
        LET line0 == Join(<<" ">>, parts1 \o <<ing["item"].s>>)
            line1 == line0 \o AltClause(ing)
            line2 == IF Truthy(DictGet(ing, "optional", NoneV))
                     THEN line1 \o LitOptional ELSE line1
            line3 == IF Truthy(DictGet(ing, "garnish", NoneV))
                     THEN line2 \o LitGarnish ELSE line2
            line4 == IF Truthy(DictGet(ing, "brand", NoneV))
                     THEN line3 \o LitBrand \o PyStr(ing["brand"]) \o <<"]">> ELSE line3
        IN  IF Truthy(DictGet(ing, "ref", NoneV))
            THEN IF ing["ref"].t # "str" THEN Raise("TypeError")
                 ELSE Ok(line4 \o LitSee
                         \o Title(Replace(PathStem(ing["ref"].s), "_", " ")) \o <<")">>)
            ELSE Ok(line4)

format_ingredient(ing) ==
    LET amount_str == Strip(PyStr(DictGet(ing, "amount", StrV(<<>>))))
        unit_str   == Strip(PyStr(DictGet(ing, "unit", StrV(<<>>))))
        parts0     == IF amount_str # <<>> THEN <<amount_str>> ELSE <<>>
        parts1     == IF unit_str # <<>> THEN parts0 \o <<unit_str>> ELSE parts0
    IN  IF "item" \notin DOMAIN ing THEN Raise("KeyError")         \* ing["item"]
        ELSE IF ing["item"].t # "str" THEN Raise("TypeError")      \* " ".join(parts)
        ELSE
        LET line0 == Join(<<" ">>, parts1 \o <<ing["item"].s>>)
            line1 == line0 \o AltClause(ing)
            line2 == IF Truthy(DictGet(ing, "optional", NoneV))
                     THEN line1 \o LitOptional ELSE line1
            line3 == IF Truthy(DictGet(ing, "brand", NoneV))
                     THEN line2 \o LitBrand \o PyStr(ing["brand"]) \o <<"]">> ELSE line2
        IN  IF Truthy(DictGet(ing, "ref", NoneV))
            THEN IF ing["ref"].t # "str" THEN Raise("TypeError")   \* Path(ing["ref"])
                 ELSE
                 LET ref_name == Title(Replace(PathStem(ing["ref"].s), "_", " "))
                     line4    == line3 \o LitSee \o ref_name \o <<")">>
                 IN  Ok(IF Truthy(DictGet(ing, "garnish", NoneV))
                        THEN line4 \o LitGarnish ELSE line4)
            ELSE Ok(IF Truthy(DictGet(ing, "garnish", NoneV))
                    THEN line3 \o LitGarnish ELSE line3)

----------------------------------------------------------------------------
(* format_substitution, lines 68-74 *)

\* `for` consulted first
format_substitution_ForFirst(sub) ==
    LET line   == format_ingredient(sub)
        f      == DictGet(sub, "for", StrV(<<>>))
        target == IF Truthy(f) THEN f ELSE DictGet(sub, "replaces", NoneV)
    IN  IF line.exc # "none" THEN line
        ELSE IF Truthy(target) THEN Ok(line.val \o LitReplaces \o PyStr(target))
        ELSE line

format_substitution(sub) ==
    LET line   == format_ingredient(sub)
        r      == DictGet(sub, "replaces", NoneV)
        \* a or b: a when a is truthy, else b
        target == IF Truthy(r) THEN r ELSE DictGet(sub, "for", StrV(<<>>))
    IN  IF line.exc # "none" THEN line
        ELSE IF Truthy(target) THEN Ok(line.val \o LitReplaces \o PyStr(target))
        ELSE line

----------------------------------------------------------------------------
(* The parts of the state a specification does not exercise stay at rest. *)

NoDict == <<>>

FmtIdle ==
    /\ fpc = "idle" /\ farg = NoDict /\ fres = Ok(<<>>)

RenderIdle ==
    /\ rpc = "idle" /\ data = <<>> /\ out = <<>> /\ rexc = "none"

CompIdle ==
    /\ cpc = "idle" /\ comp = NoDict /\ cout = <<>>

LayoutIdle ==
    /\ y = 0 /\ page = 0 /\ lpc = "idle" /\ inComp = FALSE
    /\ hdrPage = 0 /\ hdrBroke = FALSE /\ hdrY = 0 /\ brokeFirst = FALSE

MainIdle ==
    /\ mpc = "idle" /\ nfiles = 0 /\ idx = 0 /\ cur = NoneV
    /\ success_count = 0 /\ error_count = 0
    /\ outcome = <<>> /\ loaded = <<>> /\ rendered = {} /\ written = <<>>
    /\ ret = -1

----------------------------------------------------------------------------
(* The formatters applied to bounded inputs. *)

MaxTimeLen == 5
TimeAlphabet == {"0", "1", ":", "x", "-", " "}
TimeInputs == UNION {[1..k -> TimeAlphabet] : k \in 0..MaxTimeLen}

AmountVals  == {Absent, StrV(<<>>), StrV(<<" ">>), StrV(<<"2", " ">>)}
UnitVals    == {Absent, StrV(<<" ">>), StrV(<<"c">>)}
ItemVals    == {Absent, NoneV, StrV(<<"f">>)}
AltAmtVals  == {Absent, StrV(<<"3">>)}
AltUnitVals == {Absent, StrV(<<"g">>)}
FlagVals    == {Absent, BoolV(FALSE), BoolV(TRUE)}
BrandVals   == {Absent, StrV(<<>>), StrV(<<"B">>)}
RefVals     == {Absent, StrV(<<>>), StrV(<<"a","/","b","_","c",".","y","a","m","l">>)}
TargetVals(c) == {Absent, NoneV, StrV(<<>>), StrV(<<c>>)}

MkIng(am, un, it, aa, ua, op, br, rf, ga) ==
    MkDict([amount |-> am, unit |-> un, item |-> it, amount_alt |-> aa,
            unit_alt |-> ua, optional |-> op, brand |-> br, ref |-> rf,
            garnish |-> ga])

MkSub(am, it, op, rp, fo) ==
    MkDict([amount |-> am, item |-> it, optional |-> op, replaces |-> rp, for |-> fo])

FormatInit == FmtIdle /\ RenderIdle /\ CompIdle /\ LayoutIdle /\ MainIdle

CallFormatTime ==
    /\ fpc = "idle"
    /\ \E s \in TimeInputs :
        /\ farg' = [time_str |-> StrV(s)]
        /\ fres' = format_time(StrV(s))
    /\ fpc' = "format_time"
    /\ UNCHANGED <<renderVars, compVars, layoutVars, mainVars>>

CallFormatIngredient ==
    /\ fpc = "idle"
    /\ \E am \in AmountVals, un \in UnitVals, it \in ItemVals, aa \in AltAmtVals,
          ua \in AltUnitVals, op \in FlagVals, br \in BrandVals, rf \in RefVals,
          ga \in FlagVals :
        LET ing == MkIng(am, un, it, aa, ua, op, br, rf, ga)
        IN  /\ farg' = ing
            /\ fres' = format_ingredient(ing)
    /\ fpc' = "format_ingredient"
    /\ UNCHANGED <<renderVars, compVars, layoutVars, mainVars>>

CallFormatSubstitution ==
    /\ fpc = "idle"
    /\ \E am \in AmountVals, it \in ItemVals, op \in FlagVals,
          rp \in TargetVals("m"), fo \in TargetVals("w") :
        LET sub == MkSub(am, it, op, rp, fo)
        IN  /\ farg' = sub
            /\ fres' = format_substitution(sub)
    /\ fpc' = "format_substitution"
    /\ UNCHANGED <<renderVars, compVars, layoutVars, mainVars>>

FormatReturn ==
    /\ fpc # "idle"
    /\ fpc' = "idle" /\ farg' = NoDict /\ fres' = Ok(<<>>)
    /\ UNCHANGED <<renderVars, compVars, layoutVars, mainVars>>

FormatNext ==
    \/ CallFormatTime
    \/ CallFormatIngredient
    \/ CallFormatSubstitution
    \/ FormatReturn

SpecFormat == FormatInit /\ [][FormatNext]_vars

----------------------------------------------------------------------------
(* Claims about the formatters *)

HasStrItem(d) == "item" \in DOMAIN d /\ d["item"].t = "str"
Present(d, k) == k \in DOMAIN d
PresentTruthy(d, k) == k \in DOMAIN d /\ Truthy(d[k])

\* the base line: amount and unit, each only when non-empty after trimming, then item
BaseLine(d) ==
    LET am == IF Present(d, "amount") THEN Strip(PyStr(d["amount"])) ELSE <<>>
        un == IF Present(d, "unit") THEN Strip(PyStr(d["unit"])) ELSE <<>>
    IN  (IF am # <<>> THEN am \o <<" ">> ELSE <<>>)
        \o (IF un # <<>> THEN un \o <<" ">> ELSE <<>>)
        \o d["item"].s

AltText(d) ==
    CASE Present(d, "amount_alt") /\ Present(d, "unit_alt") ->
            LitParen \o PyStr(d["amount_alt"]) \o <<" ">> \o PyStr(d["unit_alt"]) \o <<")">>
      [] Present(d, "amount_alt") /\ ~Present(d, "unit_alt") ->
            LitParen \o PyStr(d["amount_alt"]) \o <<")">>
      [] OTHER -> <<>>

SeeText(d) ==
    LitSee \o Title(Replace(PathStem(PyStr(d["ref"])), "_", " ")) \o <<")">>

\* the line with the five trailing clauses in their fixed order; seeCond says
\* when the see-clause is due
ClauseLine(d, seeCond) ==
    BaseLine(d)
    \o AltText(d)
    \o (IF PresentTruthy(d, "optional") THEN LitOptional ELSE <<>>)
    \o (IF PresentTruthy(d, "brand") THEN LitBrand \o PyStr(d["brand"]) \o <<"]">> ELSE <<>>)
    \o (IF seeCond THEN SeeText(d) ELSE <<>>)
    \o (IF PresentTruthy(d, "garnish") THEN LitGarnish ELSE <<>>)

\* C6 as stated: the see-clause appears exactly when `ref` is present.
C6_AsStated ==
    (fpc = "format_ingredient" /\ HasStrItem(farg)) =>
        fres = Ok(ClauseLine(farg, Present(farg, "ref")))

\* C6 (amended): for every ingredient with an item, format_ingredient returns
\* the base line (amount, unit, item) followed by the clauses alt-quantity,
\* [optional], [Brand: ..], (see: ..), [garnish] in that order, each at most
\* once; the see-clause appears exactly when `ref` is present and non-empty.
C6_IngredientLine ==
    (fpc = "format_ingredient" /\ HasStrItem(farg)) =>
        fres = Ok(ClauseLine(farg, PresentTruthy(farg, "ref")))

\* every clause present: "2 c f  (3 g)  [optional]  [Brand: B]  (see: B C)  [garnish]"
C6_Witness ==
    /\ fpc = "format_ingredient"
    /\ farg = MkIng(StrV(<<"2", " ">>), StrV(<<"c">>), StrV(<<"f">>), StrV(<<"3">>),
                    StrV(<<"g">>), BoolV(TRUE), StrV(<<"B">>),
                    StrV(<<"a","/","b","_","c",".","y","a","m","l">>), BoolV(TRUE))
    /\ fres.val = <<"2"," ","c"," ","f"," "," ","(","3"," ","g",")">>
                  \o LitOptional \o <<" "," ","[","B","r","a","n","d",":"," ","B","]">>
                  \o <<" "," ","(","s","e","e",":"," ","B"," ","C",")">> \o LitGarnish

\* the replaces-clause for target field k
ReplacesText(d, k) == LitReplaces \o PyStr(d[k])

\* C5 as stated: `replaces` is the target whenever it is present, `for` only
\* when `replaces` is absent; the clause is appended unless the target is empty.
C5_AsStated ==
    (fpc = "format_substitution" /\ HasStrItem(farg)) =>
        LET k == IF Present(farg, "replaces") THEN "replaces" ELSE "for"
        IN  fres = Ok(format_ingredient(farg).val
                      \o (IF PresentTruthy(farg, k) THEN ReplacesText(farg, k) ELSE <<>>))

\* C5 (amended): format_substitution returns the ingredient line followed by
\* the replaces-clause whose target is `replaces` when that is present and
\* non-empty, else `for` when that is present and non-empty, and no clause
\* when neither is; when both are non-empty, `replaces` wins.
C5_SubstitutionTarget ==
    (fpc = "format_substitution" /\ HasStrItem(farg)) =>
        fres = Ok(format_ingredient(farg).val
                  \o (CASE PresentTruthy(farg, "replaces") -> ReplacesText(farg, "replaces")
                        [] ~PresentTruthy(farg, "replaces") /\ PresentTruthy(farg, "for")
                             -> ReplacesText(farg, "for")
                        [] OTHER -> <<>>))

\* both fields present and non-empty: "f  -> replaces m"
C5_Witness ==
    /\ fpc = "format_substitution"
    /\ farg = MkSub(Absent, StrV(<<"f">>), Absent, StrV(<<"m">>), StrV(<<"w">>))
    /\ fres.val = <<"f">> \o LitReplaces \o <<"m">>

\* C7: format_time never raises; when the first two colon-separated segments
\* parse as integers h and m it returns "{h}h {m}min" for h > 0 and "{m} min"
\* otherwise; in every other case it returns its input unchanged.
C7_FormatTimeTotal ==
    fpc = "format_time" =>
        LET s    == farg.time_str.s
            segs == Split(s, ":")
            two  == /\ Len(segs) >= 2
                    /\ IntParse(segs[1]).exc = "none"
                    /\ IntParse(segs[2]).exc = "none"
        IN  /\ fres.exc = "none"
            /\ two =>
                 LET h == IntParse(segs[1]).val
                     m == IntParse(segs[2]).val
                 IN  /\ h > 0 => fres.val = IntStr(h) \o <<"h"," ">> \o IntStr(m) \o <<"m","i","n">>
                     /\ h <= 0 => fres.val = IntStr(m) \o <<" ","m","i","n">>
            /\ ~two => fres.val = s

\* a single segment: int(parts[0]) succeeds and parts[1] raises IndexError
C7_Witness ==
    /\ fpc = "format_time"
    /\ farg.time_str.s = <<"0", "1">>
    /\ fres = Ok(<<"0", "1">>)

----------------------------------------------------------------------------
(* main(), lines 347-388 *)

\* What yaml.safe_load returns for a file: None, a mapping (its key set), a
\* sequence (its elements), a str (its characters) or an int.
DocNone      == [t |-> "none", keys |-> {}, elems |-> {}, s |-> <<>>, n |-> 0]
DocDict(ks)  == [t |-> "dict", keys |-> ks, elems |-> {}, s |-> <<>>, n |-> 0]
DocList(es)  == [t |-> "list", keys |-> {}, elems |-> es, s |-> <<>>, n |-> 0]
DocStr(cs)   == [t |-> "str", keys |-> {}, elems |-> {}, s |-> cs, n |-> 0]
DocInt(k)    == [t |-> "int", keys |-> {}, elems |-> {}, s |-> <<>>, n |-> k]
\* the file could not be opened or parsed
Unloaded     == [t |-> "unloaded", keys |-> {}, elems |-> {}, s |-> <<>>, n |-> 0]

NameStr == <<"n","a","m","e">>

Documents ==
    { DocNone, DocDict({}), DocDict({"steps"}), DocDict({"name"}),
      DocList({"x"}), DocList({"name"}), DocStr(NameStr), DocInt(5) }

\* `not data` is the negation of this
DocTruthy(d) ==
    CASE d.t = "dict" -> d.keys # {}
      [] d.t = "list" -> d.elems # {}
      [] d.t = "str"  -> d.s # <<>>
      [] d.t = "int"  -> d.n # 0
      [] OTHER        -> FALSE

\* `k in data`: key membership for a mapping, element membership for a
\* sequence, substring test for a str, TypeError for anything else
DocContains(d, k, kchars) ==
    CASE d.t = "dict" -> Ok(k \in d.keys)
      [] d.t = "list" -> Ok(k \in d.elems)
      [] d.t = "str"  -> Ok(\E i \in 1..Len(d.s) :
                               /\ i + Len(kchars) - 1 <= Len(d.s)
                               /\ SubSeq(d.s, i, i + Len(kchars) - 1) = kchars)
      [] OTHER        -> Raise("TypeError")

MaxFiles == 4

\* one failure is forgiven
ExitStatus_MoreThanOne(ec) == IF ec > 1 THEN 1 ELSE 0

\* line 388
ExitStatus(ec) == IF ec > 0 THEN 1 ELSE 0

\* the loop moves to the next file, or leaves for the summary line
Advance ==
    IF idx < nfiles
    THEN idx' = idx + 1 /\ mpc' = "mkdir"
    ELSE idx' = idx /\ mpc' = "summary"

MainInit ==
    /\ mpc = "start" /\ nfiles = 0 /\ idx = 0 /\ cur = Unloaded
    /\ success_count = 0 /\ error_count = 0
    /\ outcome = <<>> /\ loaded = <<>> /\ rendered = {} /\ written = <<>>
    /\ ret = -1
    /\ FmtIdle /\ RenderIdle /\ CompIdle /\ LayoutIdle

\* lines 352-361
FindFiles ==
    /\ mpc = "start"
    /\ \E n \in 0..MaxFiles :
        /\ nfiles' = n
        /\ outcome' = [i \in 1..n |-> "none"]
        /\ loaded' = [i \in 1..n |-> Unloaded]
        /\ written' = [i \in 1..n |-> 0]
        /\ IF n = 0
           THEN mpc' = "done" /\ ret' = 1 /\ idx' = 0
           ELSE mpc' = "mkdir" /\ ret' = ret /\ idx' = 1
    /\ UNCHANGED <<cur, success_count, error_count, rendered>>
    /\ UNCHANGED <<fmtVars, renderVars, compVars, layoutVars>>

\* lines 364-366, before the try: the output directory is created
MkdirOk ==
    /\ mpc = "mkdir"
    /\ mpc' = "load" /\ cur' = Unloaded
    /\ UNCHANGED <<nfiles, idx, success_count, error_count, outcome, loaded,
                   rendered, written, ret>>
    /\ UNCHANGED <<fmtVars, renderVars, compVars, layoutVars>>

\* mkdir raises (OSError): no handler encloses it, the exception leaves main()
MkdirRaises ==
    /\ mpc = "mkdir"
    /\ mpc' = "aborted"
    /\ UNCHANGED <<nfiles, idx, cur, success_count, error_count, outcome, loaded,
                   rendered, written, ret>>
    /\ UNCHANGED <<fmtVars, renderVars, compVars, layoutVars>>

\* lines 369-370
LoadOk ==
    /\ mpc = "load"
    /\ \E d \in Documents :
        /\ cur' = d
        /\ loaded' = [loaded EXCEPT ![idx] = d]
    /\ mpc' = "validate"
    /\ UNCHANGED <<nfiles, idx, success_count, error_count, outcome, rendered,
                   written, ret>>
    /\ UNCHANGED <<fmtVars, renderVars, compVars, layoutVars>>

\* open() or yaml.safe_load raises
LoadRaises ==
    /\ mpc = "load"
    /\ mpc' = "except"
    /\ UNCHANGED <<nfiles, idx, cur, success_count, error_count, outcome, loaded,
                   rendered, written, ret>>
    /\ UNCHANGED <<fmtVars, renderVars, compVars, layoutVars>>

\* lines 372-375: `if not data or "name" not in data`
Validate ==
    /\ mpc = "validate"
    /\ LET has == DocContains(cur, "name", NameStr)
       IN  IF ~DocTruthy(cur) \/ (has.exc = "none" /\ ~has.val)
           THEN \* SKIP, counted as an error, continue
                /\ error_count' = error_count + 1
                /\ outcome' = [outcome EXCEPT ![idx] = "SKIP"]
                /\ Advance
           ELSE /\ mpc' = IF has.exc = "none" THEN "render" ELSE "except"
                /\ UNCHANGED <<error_count, outcome, idx>>
    /\ UNCHANGED <<nfiles, cur, success_count, loaded, rendered, written, ret>>
    /\ UNCHANGED <<fmtVars, renderVars, compVars, layoutVars>>

\* lines 377-378: RecipePDF() and render_recipe(data) return
RenderOk ==
    /\ mpc = "render"
    /\ cur.t = "dict"
    /\ rendered' = rendered \cup {idx}
    /\ mpc' = "output"
    /\ UNCHANGED <<nfiles, idx, cur, success_count, error_count, outcome, loaded,
                   written, ret>>
    /\ UNCHANGED <<fmtVars, renderVars, compVars, layoutVars>>

\* render_recipe raises: data["name"] of a sequence or str (TypeError), or
\* anything the layout of a mapping raises
RenderRaises ==
    /\ mpc = "render"
    /\ rendered' = rendered \cup {idx}
    /\ mpc' = "except"
    /\ UNCHANGED <<nfiles, idx, cur, success_count, error_count, outcome, loaded,
                   written, ret>>
    /\ UNCHANGED <<fmtVars, renderVars, compVars, layoutVars>>

\* lines 379-381
OutputOk ==
    /\ mpc = "output"
    /\ written' = [written EXCEPT ![idx] = @ + 1]
    /\ success_count' = success_count + 1
    /\ outcome' = [outcome EXCEPT ![idx] = "OK"]
    /\ Advance
    /\ UNCHANGED <<nfiles, cur, error_count, loaded, rendered, ret>>
    /\ UNCHANGED <<fmtVars, renderVars, compVars, layoutVars>>

\* pdf.output raises: no document
OutputRaises ==
    /\ mpc = "output"
    /\ mpc' = "except"
    /\ UNCHANGED <<nfiles, idx, cur, success_count, error_count, outcome, loaded,
                   rendered, written, ret>>
    /\ UNCHANGED <<fmtVars, renderVars, compVars, layoutVars>>

\* lines 383-385
Except ==
    /\ mpc = "except"
    /\ error_count' = error_count + 1
    /\ outcome' = [outcome EXCEPT ![idx] = "ERROR"]
    /\ Advance
    /\ UNCHANGED <<nfiles, cur, success_count, loaded, rendered, written, ret>>
    /\ UNCHANGED <<fmtVars, renderVars, compVars, layoutVars>>

\* lines 387-388
Summary ==
    /\ mpc = "summary"
    /\ ret' = ExitStatus(error_count)
    /\ mpc' = "done"
    /\ UNCHANGED <<nfiles, idx, cur, success_count, error_count, outcome, loaded,
                   rendered, written>>
    /\ UNCHANGED <<fmtVars, renderVars, compVars, layoutVars>>

MainNext ==
    \/ FindFiles
    \/ MkdirOk
    \/ MkdirRaises
    \/ LoadOk
    \/ LoadRaises
    \/ Validate
    \/ RenderOk
    \/ RenderRaises
    \/ OutputOk
    \/ OutputRaises
    \/ Except
    \/ Summary

SpecMain == MainInit /\ [][MainNext]_vars

----------------------------------------------------------------------------
(* Claims about main() *)

Classified(i) == outcome[i] # "none"
CountOf(kinds) == Cardinality({i \in 1..nfiles : outcome[i] \in kinds})

\* C1: when main() returns, the status is 0 iff at least one file was found
\* and every discovered file was reported OK, and it is 1 otherwise.
C1_ExitStatus ==
    mpc = "done" =>
        /\ ret \in {0, 1}
        /\ ret = 0 <=> (nfiles > 0 /\ \A i \in 1..nfiles : outcome[i] = "OK")

\* three valid files and one without `name`: 3 documents, 1 error, status 1
C1_Witness ==
    /\ mpc = "done" /\ nfiles = 4 /\ ret = 1
    /\ outcome = <<"OK", "OK", "SKIP", "OK">>
    /\ success_count = 3 /\ error_count = 1

\* the record of file i has the `name` field: it is a mapping with that key
HasNameField(d) == d.t = "dict" /\ "name" \in d.keys

\* C2: a loaded record that is empty or lacks the `name` field is never passed
\* to render_recipe, has no document written, and is reported SKIP and counted
\* in error_count; a file reported OK has exactly one document and is counted
\* once in success_count; no file has more than one document.
C2_NameRequired ==
    /\ \A i \in 1..nfiles :
        /\ written[i] <= 1
        /\ (loaded[i].t # "unloaded" /\ ~HasNameField(loaded[i])) =>
              /\ i \notin rendered
              /\ written[i] = 0
              /\ Classified(i) => outcome[i] = "SKIP"
        /\ (Classified(i) /\ outcome[i] = "OK") => written[i] = 1
    /\ mpc \in {"summary", "done"} /\ nfiles > 0 =>
        /\ success_count = CountOf({"OK"})
        /\ error_count = CountOf({"SKIP", "ERROR"})

\* C3: no exception raised while a file is processed aborts the batch: every
\* discovered file is classified and the summary line is reached with
\* success_count + error_count equal to the number of discovered files.
C3_ErrorsIsolated ==
    /\ mpc # "aborted"
    /\ (mpc \in {"summary", "done"} /\ nfiles > 0) =>
        /\ \A i \in 1..nfiles : Classified(i)
        /\ success_count + error_count = nfiles

----------------------------------------------------------------------------
(* The renderer: what it emits, block by block. *)

\* The value of a section field: None, a sequence of n well-formed items, a
\* mapping (ings, comps: the lengths of its `ingredients` and `components`
\* sequences, -1 for a missing key) or a str.
RAbsent      == [t |-> "absent", n |-> 0, ings |-> -1, comps |-> -1]
RNull        == [t |-> "none", n |-> 0, ings |-> -1, comps |-> -1]
RList(k)     == [t |-> "list", n |-> k, ings |-> -1, comps |-> -1]
RDict(i, c)  == [t |-> "dict", n |-> 0, ings |-> i, comps |-> c]
RText        == [t |-> "str", n |-> 1, ings |-> -1, comps |-> -1]

\* bool(v) of a section value
RTruthy(v) ==
    CASE v.t = "list" -> v.n > 0
      [] v.t = "dict" -> v.ings >= 0 \/ v.comps >= 0
      [] v.t = "str"  -> v.n > 0
      [] OTHER        -> FALSE

\* n copies of block b
Rep(n, b) == [i \in 1..n |-> b]

RECURSIVE Flat(_)
Flat(ss) == IF ss = <<>> THEN <<>> ELSE Head(ss) \o Flat(Tail(ss))

Section(title) == <<"section", title>>
Label(text)    == <<"label", text>>
Bullet         == <<"bullet", "">>
Numbered       == <<"numbered", "">>
SubHeading     == <<"subheading", "">>
TitleBlock     == <<"title", "">>

\* render_ingredients / render_steps / a loop of _bullet_line over a section
\* value: one block per item; iterating None raises TypeError
Lines(v, block) ==
    IF v.t = "list" THEN Ok(Rep(v.n, block)) ELSE Raise("TypeError")

\* blocks `pre` followed by what r emits, r's exception kept
Then(pre, r) == IF r.exc = "none" THEN Ok(pre \o r.val) ELSE [exc |-> r.exc, val |-> pre \o r.val]
Seq2(r1, r2) == IF r1.exc = "none" THEN Then(r1.val, r2) ELSE r1

\* One labelled sub-block of render_component: lines 244-250, 252-258, 260-267
SubBlock(c, field, text, block) ==
    IF field \in DOMAIN c
    THEN Then(<<Label(text)>>, Lines(c[field], block))
    ELSE Ok(<<>>)

\* lines 269-275: the Optional sub-block is written for a list only
CompOptional(c) ==
    IF "optional" \in DOMAIN c /\ c["optional"].t = "list"
    THEN Then(<<Label("Optional")>>, Lines(c["optional"], Bullet))
    ELSE Ok(<<>>)

\* render_component, lines 230-277
render_component(c) ==
    IF "name" \notin DOMAIN c THEN Raise("KeyError")
    ELSE Then(<<SubHeading>>,
              Seq2(SubBlock(c, "ingredients", "Ingredients", Bullet),
              Seq2(SubBlock(c, "steps", "Steps", Numbered),
              Seq2(SubBlock(c, "substitutions", "Substitutions", Bullet),
                   CompOptional(c)))))

\* the components of a section value are well-formed and carry a name only
PlainComp == [name |-> StrV(<<"c">>)]

Components(n) == Ok(Flat(Rep(n, render_component(PlainComp).val)))

----------------------------------------------------------------------------
(* render_component applied to bounded components *)

MaxItems == 2

ListVals == {RAbsent, RNull} \cup {RList(k) : k \in 0..MaxItems}
CompOptVals == ListVals \cup {RDict(i, c) : i \in {-1, 1}, c \in {-1, 1}}

MkComp(nm, ing, st, su, op) ==
    MkDict([name |-> nm, ingredients |-> ing, steps |-> st, substitutions |-> su,
            optional |-> op])

ComponentInit == FmtIdle /\ RenderIdle /\ CompIdle /\ LayoutIdle /\ MainIdle

CallRenderComponent ==
    /\ cpc = "idle"
    /\ \E nm \in {Absent, StrV(<<"c">>)}, ing \in ListVals, st \in ListVals,
          su \in ListVals, op \in CompOptVals :
        LET c == MkComp(nm, ing, st, su, op)
            r == render_component(c)
        IN  /\ comp' = c
            /\ cout' = r.val
            /\ cpc' = IF r.exc = "none" THEN "done" ELSE "raised"
    /\ UNCHANGED <<fmtVars, renderVars, layoutVars, mainVars>>

ComponentReturn ==
    /\ cpc # "idle"
    /\ cpc' = "idle" /\ comp' = NoDict /\ cout' = <<>>
    /\ UNCHANGED <<fmtVars, renderVars, layoutVars, mainVars>>

ComponentNext ==
    \/ CallRenderComponent
    \/ ComponentReturn

SpecComponent == ComponentInit /\ [][ComponentNext]_vars

\* the texts of the blocks of one kind, in the order emitted
RECURSIVE TextsOf(_, _)
TextsOf(blocks, kind) ==
    IF blocks = <<>> THEN <<>>
    ELSE (IF Head(blocks)[1] = kind THEN <<Head(blocks)[2]>> ELSE <<>>)
         \o TextsOf(Tail(blocks), kind)

\* the number of blocks after the label `text`
AfterLabel(blocks, text) ==
    LET at == {i \in 1..Len(blocks) : blocks[i] = Label(text)}
    IN  IF at = {} THEN -1
        ELSE Len(blocks) - (CHOOSE i \in at : \A j \in at : j <= i)

\* the number of lines an `optional` value holds
OptContent(v) ==
    CASE v.t = "list" -> v.n
      [] v.t = "dict" -> (IF v.ings > 0 THEN v.ings ELSE 0) + (IF v.comps > 0 THEN v.comps ELSE 0)
      [] OTHER        -> 0

\* the field is a flat list, or a mapping with components and/or ingredients
HasShape(c, k) ==
    /\ k \in DOMAIN c
    /\ \/ c[k].t = "list"
       \/ c[k].t = "dict" /\ (c[k].ings >= 0 \/ c[k].comps >= 0)

\* C10: after the sub-heading, render_component emits the labelled sub-blocks
\* Ingredients, Steps, Substitutions, Optional in that order, each exactly
\* when the component has the field; an `optional` given as a list or as a
\* mapping has its content rendered under the Optional label.
C10_ComponentBlocks ==
    cpc = "done" =>
        /\ cout[1] = SubHeading
        /\ \E opt \in {<<>>, <<"Optional">>} :
              /\ TextsOf(cout, "label") =
                    (IF "ingredients" \in DOMAIN comp THEN <<"Ingredients">> ELSE <<>>)
                    \o (IF "steps" \in DOMAIN comp THEN <<"Steps">> ELSE <<>>)
                    \o (IF "substitutions" \in DOMAIN comp THEN <<"Substitutions">> ELSE <<>>)
                    \o opt
              /\ "optional" \notin DOMAIN comp => opt = <<>>
              /\ HasShape(comp, "optional") => opt = <<"Optional">>
        /\ HasShape(comp, "optional") =>
              AfterLabel(cout, "Optional") = OptContent(comp["optional"])

----------------------------------------------------------------------------
(* render_recipe, lines 296-334, and render_optional_section, lines 279-294 *)

\* A record is the sequence of the <<key, value>> entries of its mapping, in
\* the order of the input file; `name` is present (main, line 372) and is
\* not listed.
In(d, k)  == \E i \in 1..Len(d) : d[i][1] = k
Get(d, k) == d[CHOOSE i \in 1..Len(d) : d[i][1] = k][2]

\* Steps and Notes exchanged
RenderOrder_NotesFirst ==
    <<"components", "ingredients", "optional", "notes", "steps_alt",
      "substitutions", "garnishes", "steps">>

\* the order of the tests of render_recipe, lines 302-334
RenderOrder ==
    <<"components", "ingredients", "optional", "steps", "steps_alt",
      "substitutions", "garnishes", "notes">>

PcAfter(field) ==
    LET i == CHOOSE i \in 1..Len(RenderOrder) : RenderOrder[i] = field
    IN  IF i = Len(RenderOrder) THEN "done" ELSE RenderOrder[i + 1]

\* the section is written whenever the key is present
render_optional_section_KeyTest(d) ==
    IF ~In(d, "optional") THEN Ok(<<>>)
    ELSE LET opt == Get(d, "optional")
         IN  Then(<<Section("Optional")>>,
                  IF opt.t = "list" THEN Ok(Rep(opt.n, Bullet))
                  ELSE IF opt.t = "dict"
                  THEN Seq2(IF opt.comps >= 0 THEN Components(opt.comps) ELSE Ok(<<>>),
                            IF opt.ings >= 0 THEN Ok(Rep(opt.ings, Bullet)) ELSE Ok(<<>>))
                  ELSE Ok(<<>>))

render_optional_section(d) ==
    LET opt == IF In(d, "optional") THEN Get(d, "optional") ELSE RNull   \* data.get
    IN  IF ~RTruthy(opt) THEN Ok(<<>>)                                   \* if not opt: return
        ELSE Then(<<Section("Optional")>>,
                  IF opt.t = "list" THEN Ok(Rep(opt.n, Bullet))
                  ELSE IF opt.t = "dict"
                  THEN Seq2(IF opt.comps >= 0 THEN Components(opt.comps) ELSE Ok(<<>>),
                            IF opt.ings >= 0 THEN Ok(Rep(opt.ings, Bullet)) ELSE Ok(<<>>))
                  ELSE Ok(<<>>))

MaxFields == 3

SectionFields ==
    {"components", "ingredients", "optional", "steps", "steps_alt",
     "substitutions", "garnishes", "notes"}

FieldVals(k) ==
    IF k = "optional"
    THEN {RNull, RList(0), RList(1), RDict(-1, -1), RDict(1, -1), RDict(0, 1), RText}
    ELSE IF k = "steps" THEN {RNull, RList(0), RList(1)}
    ELSE {RList(0), RList(1)}

Entries == UNION {{<<k, v>> : v \in FieldVals(k)} : k \in SectionFields}

Records ==
    UNION {{r \in [1..n -> Entries] :
                \A i, j \in 1..n : i # j => r[i][1] # r[j][1]} : n \in 0..MaxFields}

RenderInit ==
    /\ rpc = "header" /\ data \in Records /\ out = <<>> /\ rexc = "none"
    /\ FmtIdle /\ CompIdle /\ LayoutIdle /\ MainIdle

\* what a step of render_recipe that emits r does to the state
Emit(field, r) ==
    /\ out' = out \o r.val
    /\ rexc' = r.exc
    /\ rpc' = IF r.exc = "none" THEN PcAfter(field) ELSE "raised"
    /\ UNCHANGED data
    /\ UNCHANGED <<fmtVars, compVars, layoutVars, mainVars>>

\* `if field in data:` _section_header(title), then one block per item
ListSection(field, title, block) ==
    /\ rpc = field
    /\ Emit(field, IF In(data, field)
                   THEN Then(<<Section(title)>>, Lines(Get(data, field), block))
                   ELSE Ok(<<>>))

\* lines 298-300
RenderHeader ==
    /\ rpc = "header"
    /\ out' = out \o <<TitleBlock>>
    /\ rpc' = RenderOrder[1]
    /\ UNCHANGED <<data, rexc>>
    /\ UNCHANGED <<fmtVars, compVars, layoutVars, mainVars>>

\* lines 302-305
RenderComponents ==
    /\ rpc = "components"
    /\ Emit("components",
            IF In(data, "components")
            THEN Then(<<Section("Components")>>,
                      IF Get(data, "components").t = "list"
                      THEN Components(Get(data, "components").n)
                      ELSE Raise("TypeError"))
            ELSE Ok(<<>>))

\* lines 307-309
RenderIngredients == ListSection("ingredients", "Ingredients", Bullet)

\* line 311
RenderOptional ==
    /\ rpc = "optional"
    /\ Emit("optional", render_optional_section(data))

\* lines 313-315
RenderSteps == ListSection("steps", "Steps", Numbered)

\* lines 317-319
RenderStepsAlt == ListSection("steps_alt", "Alternative Steps", Numbered)

\* lines 321-324
RenderSubstitutions == ListSection("substitutions", "Substitutions", Bullet)

\* lines 326-329
RenderGarnishes == ListSection("garnishes", "Garnishes", Bullet)

\* lines 331-334
RenderNotes == ListSection("notes", "Notes", Bullet)

RenderNext ==
    \/ RenderHeader
    \/ RenderComponents
    \/ RenderIngredients
    \/ RenderOptional
    \/ RenderSteps
    \/ RenderStepsAlt
    \/ RenderSubstitutions
    \/ RenderGarnishes
    \/ RenderNotes

SpecRender == RenderInit /\ [][RenderNext]_vars

----------------------------------------------------------------------------
(* Claims about render_recipe *)

SectionTitles ==
    <<"Components", "Ingredients", "Optional", "Steps", "Alternative Steps",
      "Substitutions", "Garnishes", "Notes">>

FieldOfTitle ==
    [t \in {SectionTitles[i] : i \in 1..8} |->
        CASE t = "Components" -> "components"
          [] t = "Ingredients" -> "ingredients"
          [] t = "Optional" -> "optional"
          [] t = "Steps" -> "steps"
          [] t = "Alternative Steps" -> "steps_alt"
          [] t = "Substitutions" -> "substitutions"
          [] t = "Garnishes" -> "garnishes"
          [] OTHER -> "notes"]

Rank(title) == CHOOSE i \in 1..8 : SectionTitles[i] = title

Emitted == TextsOf(out, "section")
EmittedSet == {Emitted[i] : i \in 1..Len(Emitted)}

\* C4: whatever the order of the fields in the input, the title block comes
\* first and the section headers emitted so far are in the order Components,
\* Ingredients, Optional, Steps, Alternative Steps, Substitutions, Garnishes,
\* Notes, none of them twice.
C4_SectionOrder ==
    /\ out # <<>> => out[1] = TitleBlock
    /\ \A i, j \in 1..Len(Emitted) : i < j => Rank(Emitted[i]) < Rank(Emitted[j])

\* the input lists notes before steps; Steps is emitted before Notes
C4_Witness ==
    /\ rpc = "done"
    /\ Len(data) = 2 /\ data[1][1] = "notes" /\ data[2][1] = "steps"
    /\ Emitted = <<"Steps", "Notes">>

\* C8 as stated: every one of the eight sections is emitted exactly when its
\* field is present.
C8_AsStated ==
    rpc = "done" =>
        \A i \in 1..8 :
            SectionTitles[i] \in EmittedSet <=> In(data, FieldOfTitle[SectionTitles[i]])

\* C8 (amended): the sections of components, ingredients, steps, steps_alt,
\* substitutions, garnishes and notes are emitted exactly when the field is
\* present; the Optional section is emitted exactly when `optional` is present
\* and non-empty (truthy).  While rendering, no section is emitted for an
\* absent field.
C8_SectionPresence ==
    /\ \A t \in EmittedSet : In(data, FieldOfTitle[t])
    /\ rpc = "done" =>
        \A i \in 1..8 :
            LET t == SectionTitles[i]
                f == FieldOfTitle[t]
            IN  t \in EmittedSet <=>
                    IF f = "optional" THEN In(data, f) /\ RTruthy(Get(data, f))
                    ELSE In(data, f)

\* an empty `ingredients` list gets its header, an empty `optional` list does not
C8_Witness ==
    /\ rpc = "done"
    /\ In(data, "ingredients") /\ Get(data, "ingredients") = RList(0)
    /\ In(data, "optional") /\ Get(data, "optional") = RList(0)
    /\ Emitted = <<"Ingredients">>

----------------------------------------------------------------------------
(* The layout cursor.  Lengths are in half millimetres, so that ln(1.5) is
   a whole number; Mm converts.  The page object is FPDF() with its default
   A4 page and 10 mm margins and set_auto_page_break(auto=True, margin=15):
   cell and multi_cell start a new page before a line for which
   y + h > PageHeight - BottomMargin. *)

PageHeight      == 297
TopMargin       == 10
BottomMargin    == 15
HeaderThreshold == 250

Mm(x) == 2 * x
Trigger == Mm(PageHeight - BottomMargin)

\* a cursor: position, page, and whether an automatic page break happened
Cursor(yy, pg) == [y |-> yy, page |-> pg, broke |-> FALSE]

\* add_page(): the cursor moves to the top margin of a new page
AddPage(c) == [c EXCEPT !.y = Mm(TopMargin), !.page = @ + 1]

\* ln(h)
Ln(c, h) == [c EXCEPT !.y = @ + h]

\* cell(w, h, ..., new_y="NEXT"), and one line of multi_cell
Cell(c, h) ==
    IF c.y + h > Trigger
    THEN [y |-> Mm(TopMargin) + h, page |-> c.page + 1, broke |-> TRUE]
    ELSE [c EXCEPT !.y = @ + h]

\* multi_cell(w, h, text) for a text wrapped into n lines
RECURSIVE MultiCell(_, _, _)
MultiCell(c, h, n) == IF n = 0 THEN c ELSE MultiCell(Cell(c, h), h, n - 1)

\* the guard tests a position too close to the bottom margin
section_header_LateGuard(c) ==
    LET c0 == IF c.y > Mm(HeaderThreshold + 20) THEN AddPage(c) ELSE c
    IN  Ln(Cell(Ln(c0, Mm(4)), Mm(8)), Mm(3))

\* _section_header, lines 126-136
section_header(c) ==
    LET c0 == IF c.y > Mm(HeaderThreshold) THEN AddPage(c) ELSE c
    IN  Ln(Cell(Ln(c0, Mm(4)), Mm(8)), Mm(3))

\* _bullet_line, lines 138-144
bullet_line(c, n) == Ln(MultiCell(c, Mm(5), n), Mm(1))

\* _numbered_line, lines 146-153
numbered_line(c, n) == Ln(MultiCell(c, Mm(5), n), 3)

\* the sub-heading of render_component, lines 240-242
component_heading(c) == Ln(Cell(c, Mm(7)), Mm(2))

\* a label line of render_component, lines 247-249
component_label(c) == Ln(Cell(c, Mm(5)), Mm(1))

\* render_header, lines 155-214: a title of n lines, the rule, `meta`
\* metadata lines (0..2) and `urls` link lines (0..2)
render_header(c, n, meta, urls) ==
    LET c1 == Ln(MultiCell(c, Mm(12), n), Mm(4))
        c2 == IF meta >= 1 THEN Ln(Cell(c1, Mm(6)), Mm(2)) ELSE c1
        c3 == IF meta >= 2 THEN Ln(Cell(c2, Mm(6)), Mm(2)) ELSE c2
        c4 == IF urls >= 1 THEN Ln(Cell(c3, Mm(5)), Mm(1)) ELSE c3
        c5 == IF urls >= 2 THEN Ln(Cell(c4, Mm(5)), Mm(1)) ELSE c4
    IN  Ln(c5, Mm(4))

MaxWrap  == 2
MaxPages == 2

LayoutInit ==
    /\ lpc = "start" /\ y = 0 /\ page = 0 /\ inComp = FALSE
    /\ hdrPage = 0 /\ hdrBroke = FALSE /\ hdrY = 0 /\ brokeFirst = FALSE
    /\ FmtIdle /\ RenderIdle /\ CompIdle /\ MainIdle

\* render_recipe, lines 298-300: add_page() and the header block
LayoutHeader ==
    /\ lpc = "start"
    /\ \E n \in 1..MaxWrap, meta \in 0..2, urls \in 0..2 :
        LET c == render_header(AddPage(Cursor(y, page)), n, meta, urls)
        IN  y' = c.y /\ page' = c.page
    /\ lpc' = "body"
    /\ UNCHANGED <<inComp, hdrPage, hdrBroke, hdrY, brokeFirst>>
    /\ UNCHANGED <<fmtVars, renderVars, compVars, mainVars>>

\* a call of _section_header at the cursor
LayoutSectionHeader ==
    /\ lpc \in {"body", "header", "first"}
    /\ ~inComp
    /\ page <= MaxPages
    /\ LET c == section_header(Cursor(y, page))
       IN  /\ y' = c.y /\ page' = c.page
           /\ hdrY' = y
           /\ hdrBroke' = (c.page > page /\ ~c.broke)
           /\ brokeFirst' = c.broke
           /\ hdrPage' = c.page
    /\ lpc' = "header"
    /\ UNCHANGED inComp
    /\ UNCHANGED <<fmtVars, renderVars, compVars, mainVars>>

\* what a content line that moves the cursor to c does: after a section
\* header it is the first content line, and only the break before its
\* first text line counts; the record of the last header (hdrY, hdrBroke,
\* hdrPage, brokeFirst) is kept until the line after that
Content(c, firstBroke) ==
    /\ y' = c.y /\ page' = c.page
    /\ IF lpc = "header"
       THEN /\ lpc' = "first"
            /\ brokeFirst' = (brokeFirst \/ firstBroke)
            /\ UNCHANGED <<hdrPage, hdrBroke, hdrY>>
       ELSE /\ lpc' = "body"
            /\ brokeFirst' = FALSE /\ hdrPage' = 0 /\ hdrBroke' = FALSE /\ hdrY' = 0
    /\ UNCHANGED <<fmtVars, renderVars, compVars, mainVars>>

LayoutBulletLine ==
    /\ lpc \in {"body", "header", "first"}
    /\ page <= MaxPages
    /\ inComp' = inComp
    /\ \E n \in 1..MaxWrap :
        Content(bullet_line(Cursor(y, page), n), Cell(Cursor(y, page), Mm(5)).broke)

LayoutNumberedLine ==
    /\ lpc \in {"body", "header", "first"}
    /\ page <= MaxPages
    /\ inComp' = inComp
    /\ \E n \in 1..MaxWrap :
        Content(numbered_line(Cursor(y, page), n), Cell(Cursor(y, page), Mm(5)).broke)

\* render_component begins: a component follows a section header or
\* another component
LayoutComponentHeading ==
    /\ lpc \in {"body", "header", "first"}
    /\ ~inComp
    /\ page <= MaxPages
    /\ inComp' = TRUE
    /\ Content(component_heading(Cursor(y, page)), component_heading(Cursor(y, page)).broke)

\* inside a component: a label line
LayoutComponentLabel ==
    /\ inComp
    /\ page <= MaxPages
    /\ inComp' = inComp
    /\ Content(component_label(Cursor(y, page)), FALSE)

\* render_component ends, line 277
LayoutComponentEnd ==
    /\ inComp
    /\ page <= MaxPages
    /\ inComp' = FALSE
    /\ Content(Ln(Cursor(y, page), Mm(2)), FALSE)

LayoutNext ==
    \/ LayoutHeader
    \/ LayoutSectionHeader
    \/ LayoutBulletLine
    \/ LayoutNumberedLine
    \/ LayoutComponentHeading
    \/ LayoutComponentLabel
    \/ LayoutComponentEnd

SpecLayout == LayoutInit /\ [][LayoutNext]_vars

\* C9: _section_header starts a new page first iff the cursor is past 250;
\* the title, its rule and the first content line after it (a bullet or
\* numbered line, or a component sub-heading) are then laid out without an
\* automatic page break, all on the page the header started on.
C9_HeaderLookAhead ==
    lpc \in {"header", "first"} =>
        /\ hdrBroke <=> hdrY > Mm(HeaderThreshold)
        /\ ~brokeFirst
        /\ lpc = "header" => page = hdrPage /\ y <= Trigger

\* a header called exactly at 250: no explicit break, and the first line fits
C9_Witness ==
    /\ lpc = "first"
    /\ hdrY = Mm(HeaderThreshold)
    /\ ~hdrBroke /\ ~brokeFirst

====
